---- MODULE Spec2Model ----
(***************************************************************************)
(* A model of include/Try/Try.hpp: the test runner Try::Try, its           *)
(* assertion helpers and the argument logger of namespace detail.          *)
(*                                                                         *)
(* The diagnostic stream is a sequence of tokens, one token per `<<` of    *)
(* the source; std::endl is the token "\n".  A what()-string is a sequence *)
(* of pieces (one per operand of the `+` that builds it), so that "begins  *)
(* with" and "ends with" stay observable.  A body, a comparison or an      *)
(* output operator is represented by its outcome: it completes, or it      *)
(* throws an object of some kind.                                          *)
(***************************************************************************)
EXTENDS Integers, Sequences, FiniteSets, TLC

VARIABLES
    mSuccesCount,   \* Try::mSuccesCount
    mFailCount,     \* Try::mFailCount
    sink,           \* the content of the stream *mOs
    terminated,     \* std::terminate has been called
    standard,       \* the language standard the header is compiled as
    calls,          \* history: invocations made through this runner
    last            \* history: the last invocation, its inputs and its result

vars == <<mSuccesCount, mFailCount, sink, terminated, standard, calls, last>>

(***************************************************************************)
(* Bounds of the model.                                                    *)
(***************************************************************************)
MaxCalls == 2       \* invocations per behaviour
MaxArgs == 2        \* arguments passed through operator() / throws

ENDL == "\n"

(***************************************************************************)
(* Thrown objects.  std::range_error derives from std::runtime_error,      *)
(* which derives from std::exception; an int is no std::exception.         *)
(***************************************************************************)
Kinds == {"runtime_error", "range_error", "int"}

Base(k) ==
    CASE k = "range_error" -> "runtime_error"
      [] k = "runtime_error" -> "exception"
      [] OTHER -> ""

\* whether a handler `catch (const T&)` catches a thrown object of kind k
RECURSIVE Catches(_, _)
Catches(T, k) ==
    IF k = T THEN TRUE
    ELSE IF Base(k) = "" THEN FALSE
    ELSE Catches(T, Base(k))

NoThrow == [threw |-> FALSE, kind |-> "", what |-> <<>>]

Throw(k, w) == [threw |-> TRUE, kind |-> k, what |-> w]

\* what() of the objects the test bodies of the model throw
UserWhat(k) ==
    CASE k = "runtime_error" -> <<"boom">>
      [] k = "range_error" -> <<"out of range">>
      [] OTHER -> <<>>

\* the outcomes of a caller-supplied test body
Outcomes == {NoThrow} \cup {Throw(k, UserWhat(k)) : k \in Kinds}

\* typeid(T).name(), as the Itanium ABI spells it
TypeidName(t) ==
    CASE t = "int" -> "i"
      [] t = "intptr" -> "Pi"
      [] t = "nullptr_t" -> "Dn"
      [] t = "NoStream" -> "8NoStream"
      [] t = "BadStream" -> "9BadStream"
      [] t = "BadCmp" -> "6BadCmp"
      [] t = "runtime_error" -> "St13runtime_error"
      [] t = "range_error" -> "St11range_error"
      [] OTHER -> "St9exception"

(***************************************************************************)
(* Argument values: [type, val].                                           *)
(*   int        streamable, comparable                                     *)
(*   intptr     an int*; val = 0 is the null pointer                       *)
(*   nullptr_t  the null literal                                           *)
(*   NoStream   a struct with comparison operators and no operator<<       *)
(*   BadStream  a struct whose operator<< throws: at once if val = 1,      *)
(*              after it has written some text if val = 2                  *)
(*   BadCmp     a struct whose comparison operators throw                  *)
(***************************************************************************)
Val(t, v) == [type |-> t, val |-> v]

ArgVals ==
    {Val("int", 1), Val("intptr", 0), Val("nullptr_t", 0),
     Val("NoStream", 1), Val("BadStream", 1), Val("BadStream", 2)}

RECURSIVE SeqsUpTo(_, _)
SeqsUpTo(S, n) ==
    IF n = 0 THEN {<<>>}
    ELSE LET shorter == SeqsUpTo(S, n - 1)
         IN shorter \cup {Append(s, x) : s \in {t \in shorter : Len(t) = n - 1}, x \in S}

ArgLists == SeqsUpTo(ArgVals, MaxArgs)

OperandPairs ==
    {<<Val("int", 1), Val("int", 1)>>,
     <<Val("int", 1), Val("int", 2)>>,
     <<Val("int", 2), Val("int", 1)>>,
     <<Val("NoStream", 1), Val("NoStream", 2)>>,
     <<Val("BadStream", 2), Val("BadStream", 1)>>,
     <<Val("BadStream", 1), Val("BadStream", 2)>>,
     <<Val("BadCmp", 1), Val("BadCmp", 1)>>}

SourceContexts == {[file |-> "test.cpp", line |-> 7], [file |-> "test.cpp", line |-> 42]}

ExpectedKinds == {"runtime_error", "int"}

(***************************************************************************)
(* Text conversions.                                                       *)
(***************************************************************************)
Digit(d) ==
    CASE d = 0 -> "0" [] d = 1 -> "1" [] d = 2 -> "2" [] d = 3 -> "3"
      [] d = 4 -> "4" [] d = 5 -> "5" [] d = 6 -> "6" [] d = 7 -> "7"
      [] d = 8 -> "8" [] OTHER -> "9"

\* operator<< of an unsigned or non-negative integer: its decimal digits
RECURSIVE DecStr(_)
DecStr(n) == IF n < 10 THEN Digit(n) ELSE DecStr(n \div 10) \o Digit(n % 10)

\* operator<<(std::ostream&, const SourceContext&)
SourceContextOut(sc) == <<sc.file, ", line ", DecStr(sc.line)>>

\* the language standards a build of the header can select: C++11 behaves
\* as C++14 here, and the later standards as C++17
Standards == {"c++14", "c++17"}

\* the trait is_streamable<T>.  `os << nullptr` is ambiguous before C++17,
\* which added std::basic_ostream::operator<<(std::nullptr_t).
is_streamable(t) ==
    \/ t \in {"int", "intptr", "BadStream", "BadCmp"}
    \/ t = "nullptr_t" /\ standard = "c++17"

\* `os << arg` for a streamable argument: the tokens written, and whether
\* the operator threw.  The pointers of the model are null, which
\* operator<<(const void*) of libstdc++ writes as 0.  What an operator
\* wrote before it threw stays in the stream.
OutputOp(arg) ==
    CASE arg.type = "int" -> [out |-> <<DecStr(arg.val)>>, threw |-> FALSE]
      [] arg.type = "intptr" -> [out |-> <<"0">>, threw |-> FALSE]
      [] arg.type = "BadCmp" -> [out |-> <<"BadCmp">>, threw |-> FALSE]
      [] arg.type = "nullptr_t" -> [out |-> <<"nullptr">>, threw |-> FALSE]
      [] OTHER -> [out |-> IF arg.val = 1 THEN <<>> ELSE <<"Bad", "Str">>,
                   threw |-> TRUE]

\* detail::stream, its three overloads
stream(arg) ==
    IF arg.type = "nullptr_t"
    THEN [out |-> <<"\"nullptr\" (nullptr_t)">>, threw |-> FALSE]
    ELSE IF is_streamable(arg.type)
    THEN LET r == OutputOp(arg)
         IN IF r.threw
            THEN [out |-> <<"\"">> \o r.out, threw |-> TRUE]
            ELSE [out |-> <<"\"">> \o r.out \o <<"\" (", TypeidName(arg.type), ")">>,
                  threw |-> FALSE]
    ELSE [out |-> <<"[Can't print'] (", TypeidName(arg.type), ")">>, threw |-> FALSE]

\* detail::streamArgs: noexcept, so an exception leaving stream() ends the
\* process with what was written so far
RECURSIVE streamArgs(_)
streamArgs(args) ==
    IF args = <<>>
    THEN [out |-> <<ENDL>>, terminated |-> FALSE]
    ELSE LET r == stream(Head(args))
         IN IF r.threw
            THEN [out |-> r.out, terminated |-> TRUE]
            ELSE LET rest == streamArgs(Tail(args))
                 IN [out |-> r.out \o <<ENDL>> \o rest.out,
                     terminated |-> rest.terminated]

(***************************************************************************)
(* Try::operator(): the effect of running a body with outcome `body`.      *)
(***************************************************************************)
\* Report with the test for an empty argument pack left out
ReportAlwaysArguments(sc, body, args) ==
    LET head == <<"Test failed: ">> \o SourceContextOut(sc) \o <<ENDL>>
        msg  == IF Catches("exception", body.kind)
                THEN <<"Message: \"">> \o body.what \o <<"\"", ENDL>>
                ELSE <<"(no message)", ENDL>>
        r    == streamArgs(args)
    IN [out |-> head \o msg \o <<"Arguments:", ENDL>> \o r.out,
        terminated |-> r.terminated]

Report(sc, body, args) ==
    LET head == <<"Test failed: ">> \o SourceContextOut(sc) \o <<ENDL>>
        msg  == IF Catches("exception", body.kind)
                THEN <<"Message: \"">> \o body.what \o <<"\"", ENDL>>
                ELSE <<"(no message)", ENDL>>
        logged == IF Len(args) = 0
                  THEN [out |-> <<"(no arguments)", ENDL, ENDL>>, terminated |-> FALSE]
                  ELSE LET r == streamArgs(args)
                       IN [out |-> <<"Arguments:", ENDL>> \o r.out,
                           terminated |-> r.terminated]
    IN [out |-> head \o msg \o logged.out, terminated |-> logged.terminated]

Invoke(sc, body, args) ==
    IF ~body.threw
    THEN [ret |-> "true", out |-> <<>>, succ |-> 1, fail |-> 0, terminated |-> FALSE]
    ELSE LET r == Report(sc, body, args)
         IN IF r.terminated
            THEN [ret |-> "none", out |-> r.out, succ |-> 0, fail |-> 0,
                  terminated |-> TRUE]
            ELSE [ret |-> "false", out |-> r.out, succ |-> 0, fail |-> 1,
                  terminated |-> FALSE]

(***************************************************************************)
(* The closures the helpers hand to operator().                            *)
(***************************************************************************)
\* a comparison operator of the operand types of the model
Compare(opr, a, b) ==
    IF a.type = "BadCmp"
    THEN [exc |-> Throw("runtime_error", <<"bad compare">>), val |-> FALSE]
    ELSE [exc |-> NoThrow,
          val |-> CASE opr = "==" -> a.val = b.val
                    [] opr = "!=" -> a.val # b.val
                    [] opr = "<" -> a.val < b.val
                    [] OTHER -> a.val <= b.val]

Check(opr, message, a, b) ==
    LET c == Compare(opr, a, b)
    IN IF c.exc.threw THEN c.exc
       ELSE IF ~c.val THEN Throw("runtime_error", <<message>>)
       ELSE NoThrow

EqualClosure(a, b) == Check("==", "Arguments are not equal!", a, b)

NotEqualClosure(a, b) == Check("!=", "Arguments are equal!", a, b)

\* less with the comparison of lequal
LessClosureOffByOne(a, b) ==
    Check("<=", "The first argument is not less than the second!", a, b)

LessClosure(a, b) ==
    Check("<", "The first argument is not less than the second!", a, b)

LEqualClosure(a, b) ==
    Check("<=", "The first argument is not less than or equal to the second!", a, b)

\* the closure of throws<T> without its final throw
ThrowsClosureNoFinalThrow(T, test) ==
    IF ~test.threw THEN NoThrow
    ELSE IF Catches(T, test.kind) THEN NoThrow
    ELSE IF Catches("exception", test.kind)
    THEN Throw("runtime_error",
               <<"Test throws a wrong exception (", TypeidName(test.kind), "): ">>
                   \o test.what)
    ELSE Throw("runtime_error", <<"Test throws a wrong non-exception!">>)

\* the closure of throws<T> without its handler for std::exception
ThrowsClosureNoExceptionHandler(T, test) ==
    IF ~test.threw THEN Throw("runtime_error", <<"Test did not throw!">>)
    ELSE IF Catches(T, test.kind) THEN NoThrow
    ELSE Throw("runtime_error", <<"Test throws a wrong non-exception!">>)

\* the closure of throws<T>, given the outcome of test(args...)
ThrowsClosure(T, test) ==
    IF ~test.threw THEN Throw("runtime_error", <<"Test did not throw!">>)
    ELSE IF Catches(T, test.kind) THEN NoThrow
    ELSE IF Catches("exception", test.kind)
    THEN Throw("runtime_error",
               <<"Test throws a wrong exception (", TypeidName(test.kind), "): ">>
                   \o test.what)
    ELSE Throw("runtime_error", <<"Test throws a wrong non-exception!">>)

(***************************************************************************)
(* The state machine.                                                      *)
(***************************************************************************)
NoCall ==
    [op |-> "none", T |-> "", sc |-> [file |-> "", line |-> 0], test |-> NoThrow,
     body |-> NoThrow, args |-> <<>>, ret |-> "none", succ0 |-> 0, fail0 |-> 0,
     mark |-> 0]

\* the runner as Try::Try leaves it
Constructed ==
    [succ |-> 0, fail |-> 0, sink |-> <<>>, terminated |-> FALSE, calls |-> 0,
     last |-> NoCall]

Current ==
    [succ |-> mSuccesCount, fail |-> mFailCount, sink |-> sink,
     terminated |-> terminated, calls |-> calls, last |-> last]

\* the runner s after one call of operator() with closure outcome `body`;
\* `test` is the outcome of the caller's own code inside the closure
Apply(s, op, T, sc, test, body, args) ==
    LET r == Invoke(sc, body, args)
    IN [succ |-> s.succ + r.succ,
        fail |-> s.fail + r.fail,
        sink |-> s.sink \o r.out,
        terminated |-> r.terminated,
        calls |-> s.calls + 1,
        last |-> [op |-> op, T |-> T, sc |-> sc, test |-> test, body |-> body,
                  args |-> args, ret |-> r.ret, succ0 |-> s.succ,
                  fail0 |-> s.fail, mark |-> Len(s.sink)]]

ApplyEqual(s, sc, a, b) ==
    Apply(s, "equal", "", sc, Compare("==", a, b).exc, EqualClosure(a, b), <<a, b>>)

Becomes(s) ==
    /\ mSuccesCount' = s.succ
    /\ mFailCount' = s.fail
    /\ sink' = s.sink
    /\ terminated' = s.terminated
    /\ standard' = standard
    /\ calls' = s.calls
    /\ last' = s.last

Init ==
    /\ mSuccesCount = Constructed.succ
    /\ mFailCount = Constructed.fail
    /\ sink = Constructed.sink
    /\ terminated = Constructed.terminated
    /\ standard \in Standards
    /\ calls = Constructed.calls
    /\ last = Constructed.last

\* a call is made while the process lives; the model stops after MaxCalls
CanCall == ~terminated /\ calls < MaxCalls

Run ==
    \E sc \in SourceContexts, test \in Outcomes, args \in ArgLists :
        /\ CanCall
        /\ Becomes(Apply(Current, "run", "", sc, test, test, args))

Equal ==
    \E sc \in SourceContexts, p \in OperandPairs :
        /\ CanCall
        /\ Becomes(ApplyEqual(Current, sc, p[1], p[2]))

NotEqual ==
    \E sc \in SourceContexts, p \in OperandPairs :
        /\ CanCall
        /\ Becomes(Apply(Current, "notequal", "", sc, Compare("!=", p[1], p[2]).exc,
                         NotEqualClosure(p[1], p[2]), p))

Less ==
    \E sc \in SourceContexts, p \in OperandPairs :
        /\ CanCall
        /\ Becomes(Apply(Current, "less", "", sc, Compare("<", p[1], p[2]).exc,
                         LessClosure(p[1], p[2]), p))

LEqual ==
    \E sc \in SourceContexts, p \in OperandPairs :
        /\ CanCall
        /\ Becomes(Apply(Current, "lequal", "", sc, Compare("<=", p[1], p[2]).exc,
                         LEqualClosure(p[1], p[2]), p))

Throws ==
    \E sc \in SourceContexts, T \in ExpectedKinds, test \in Outcomes,
       args \in ArgLists :
        /\ CanCall
        /\ Becomes(Apply(Current, "throws", T, sc, test, ThrowsClosure(T, test), args))

Next == Run \/ Equal \/ NotEqual \/ Less \/ LEqual \/ Throws

\* a fresh runner and up to MaxCalls invocations
Spec == Init /\ [][Next]_vars

(***************************************************************************)
(* One invocation on a runner that earlier invocations have already used:  *)
(* the runner after n calls of equal, each passing (1 == 1) or failing     *)
(* (1 == 2).                                                               *)
(***************************************************************************)
RECURSIVE After(_)
After(n) ==
    IF n = 0 THEN {Constructed}
    ELSE {ApplyEqual(s, [file |-> "test.cpp", line |-> 7], Val("int", 1), Val("int", v)) :
            s \in After(n - 1), v \in {1, 2}}

InitUsed ==
    \E s \in After(MaxCalls - 1) :
        /\ mSuccesCount = s.succ
        /\ mFailCount = s.fail
        /\ sink = s.sink
        /\ terminated = s.terminated
        /\ standard \in Standards
        /\ calls = s.calls
        /\ last = s.last

SpecUsed == InitUsed /\ [][Next]_vars

TypeOK ==
    /\ mSuccesCount \in 0..MaxCalls
    /\ mFailCount \in 0..MaxCalls
    /\ calls \in 0..MaxCalls
    /\ terminated \in BOOLEAN
    /\ standard \in Standards
    /\ last.ret \in {"true", "false", "none"}

(***************************************************************************)
(* Vocabulary of the properties.                                           *)
(***************************************************************************)
Helpers == {"equal", "notequal", "less", "lequal"}

\* what the last invocation wrote to the sink
Appended == SubSeq(sink, last.mark + 1, Len(sink))

\* a token sequence cut at its line ends: the finished lines, and the
\* unfinished rest
RECURSIVE SplitAt(_, _)
SplitAt(toks, cur) ==
    IF toks = <<>> THEN [lines |-> <<>>, rest |-> cur]
    ELSE IF Head(toks) = ENDL
    THEN LET r == SplitAt(Tail(toks), <<>>)
         IN [lines |-> <<cur>> \o r.lines, rest |-> r.rest]
    ELSE SplitAt(Tail(toks), Append(cur, Head(toks)))

RECURSIVE Flat(_)
Flat(toks) == IF toks = <<>> THEN "" ELSE Head(toks) \o Flat(Tail(toks))

RECURSIVE FlatEach(_)
FlatEach(ls) == IF ls = <<>> THEN <<>> ELSE <<Flat(Head(ls))>> \o FlatEach(Tail(ls))

LastLines == SplitAt(Appended, <<>>).lines

LastRest == SplitAt(Appended, <<>>).rest

\* the finished lines of the last invocation, each as one string
Texts == FlatEach(LastLines)

RECURSIVE Count(_, _)
Count(toks, t) ==
    IF toks = <<>> THEN 0
    ELSE (IF Head(toks) = t THEN 1 ELSE 0) + Count(Tail(toks), t)

\* the last invocation reported a failure
Reported == last.op # "none" /\ last.ret # "true"

\* the argument's own textual-output operation raises
OutputRaises(arg) == arg.type = "BadStream"

SomeOutputRaises == \E i \in 1..Len(last.args) : OutputRaises(last.args[i])

\* what the argument's output wrote before it raised
WrittenBeforeRaising(arg) == OutputOp(arg).out

\* the first logged argument whose output raises, 0 if none does
FirstRaising ==
    IF SomeOutputRaises
    THEN CHOOSE i \in 1..Len(last.args) :
            /\ OutputRaises(last.args[i])
            /\ \A j \in 1..(i - 1) : ~OutputRaises(last.args[j])
    ELSE 0

\* the failure kinds that carry a descriptive message
Describable(k) == k \in {"runtime_error", "range_error"}

\* kind k is kind T or derives from it
IsOrDerivesFrom(k, T) == k = T \/ (k = "range_error" /\ T = "runtime_error")

HeaderText ==
    "Test failed: " \o last.sc.file \o ", line " \o DecStr(last.sc.line)

MessageText ==
    IF Describable(last.body.kind)
    THEN "Message: \"" \o Flat(last.body.what) \o "\""
    ELSE "(no message)"

\* the rendered lines of the first n logged arguments
RECURSIVE RenderedLines(_)
RenderedLines(n) ==
    IF n = 0 THEN <<>>
    ELSE Append(RenderedLines(n - 1), Flat(stream(last.args[n]).out))

(***************************************************************************)
(* C1: after every sequence of invocations, successCount + failureCount    *)
(* equals the number of invocations made.                                  *)
(* Violated: an invocation that terminates the process while rendering an  *)
(* argument (C7) was made and is counted by neither counter.               *)
(***************************************************************************)
CountsSumToInvocations == mSuccesCount + mFailCount = calls

\* while the process lives the sum is the number of invocations, and no
\* step decreases a counter
CountsSumWhileAlive == ~terminated => mSuccesCount + mFailCount = calls

CountsNeverDecrease ==
    [][mSuccesCount' >= mSuccesCount /\ mFailCount' >= mFailCount]_vars

(***************************************************************************)
(* C2: whenever the body of run, or the comparison of a helper, signals a  *)
(* failure, the call returns false, increments failureCount by 1 and       *)
(* leaves the runner usable.                                               *)
(* Violated: with an argument whose output raises (C7) the call does not   *)
(* return and the process is gone.                                         *)
(***************************************************************************)
BodyFailureIsContained ==
    (last.op \in {"run"} \cup Helpers /\ last.test.threw)
        => /\ last.ret = "false"
           /\ mFailCount = last.fail0 + 1
           /\ ~terminated

\* a failure of the body itself never leaves operator(): the call returns
\* false unless the rendering of an argument raises
BodyFailureContainedUnlessRenderingRaises ==
    (last.op \in {"run"} \cup Helpers /\ last.test.threw /\ ~SomeOutputRaises)
        => /\ last.ret = "false"
           /\ mFailCount = last.fail0 + 1
           /\ ~terminated

(***************************************************************************)
(* C3, as stated: throws<T> returns true exactly when the body signals a   *)
(* failure of kind T itself; otherwise it returns false and increments     *)
(* failureCount by 1.  Stated here for arguments whose output does not     *)
(* raise, so that a violation does not rest on C7.                         *)
(***************************************************************************)
ThrowsMatchesExactKind ==
    (last.op = "throws" /\ ~SomeOutputRaises)
        => LET exact == last.test.threw /\ last.test.kind = last.T
           IN /\ last.ret = "true" <=> exact
              /\ ~exact => (last.ret = "false" /\ mFailCount = last.fail0 + 1)

(***************************************************************************)
(* C3, amended: throws<T> returns true exactly when the body signals a     *)
(* failure of kind T or of a kind derived from T; otherwise it returns     *)
(* false and increments failureCount by 1, unless the rendering of a       *)
(* logged argument raises, which ends the process before the call returns. *)
(***************************************************************************)
ThrowsMatchesKindOrDerived ==
    last.op = "throws"
        => LET match == last.test.threw /\ IsOrDerivesFrom(last.test.kind, last.T)
           IN /\ last.ret = "true" <=> match
              /\ match => (mSuccesCount = last.succ0 + 1 /\ mFailCount = last.fail0)
              /\ ~match =>
                    IF SomeOutputRaises
                    THEN last.ret = "none" /\ terminated /\ mFailCount = last.fail0
                    ELSE last.ret = "false" /\ mFailCount = last.fail0 + 1

ThrowsDerivedKindPasses ==
    /\ last.op = "throws"
    /\ last.T = "runtime_error"
    /\ last.test.kind = "range_error"
    /\ last.ret = "true"

(***************************************************************************)
(* C4: when throws<T> fails, the message line of its report is "Test did   *)
(* not throw!" if the body signalled nothing, begins "Test throws a wrong  *)
(* exception (" and ends with the body's own message if the body signalled *)
(* a describable failure, and is "Test throws a wrong non-exception!" if   *)
(* it signalled an indescribable one; the failure is not signalled again   *)
(* to the caller.                                                          *)
(***************************************************************************)
ThrowsFailureMessage ==
    (last.op = "throws" /\ last.ret # "true")
        => /\ Len(LastLines) >= 2
           /\ LET m == LastLines[2]
                  w == last.test.what
              IN IF ~last.test.threw
                 THEN m = <<"Message: \"", "Test did not throw!", "\"">>
                 ELSE IF Describable(last.test.kind)
                 THEN /\ Len(m) >= Len(w) + 3
                      /\ m[1] = "Message: \""
                      /\ m[2] = "Test throws a wrong exception ("
                      /\ SubSeq(m, Len(m) - Len(w), Len(m) - 1) = w
                      /\ m[Len(m)] = "\""
                 ELSE m = <<"Message: \"", "Test throws a wrong non-exception!", "\"">>
           /\ last.ret = "none" => SomeOutputRaises

ThrowsWrongDescribableKind ==
    /\ last.op = "throws"
    /\ last.T = "int"
    /\ last.test.kind = "range_error"
    /\ last.ret = "false"

(***************************************************************************)
(* C5, as stated: a failure report is the header line, the message line    *)
(* (or "(no message)"), then "(no arguments)" and a blank line, or         *)
(* "Arguments:" and exactly one rendered line per argument, and nothing    *)
(* else.  Stated here for arguments whose output does not raise, so that a *)
(* violation does not rest on C7.                                          *)
(***************************************************************************)
ReportEndsWithLastArgument ==
    (Reported /\ ~SomeOutputRaises)
        => /\ LastRest = <<>>
           /\ Texts = <<HeaderText, MessageText>> \o
                (IF Len(last.args) = 0
                 THEN <<"(no arguments)", "">>
                 ELSE <<"Arguments:">> \o RenderedLines(Len(last.args)))

(***************************************************************************)
(* C5, amended: a failure report is the header line, the message line (or  *)
(* "(no message)"), then "(no arguments)" and a blank line, or             *)
(* "Arguments:", one rendered line per argument in the order supplied and  *)
(* one blank line; when the output of an argument raises, the report stops *)
(* inside that argument's line, after its opening quote and whatever the   *)
(* output wrote before it raised, with no closing quote, type name or line *)
(* end, and the invocation does not return.                                *)
(***************************************************************************)
ReportLayout ==
    Reported
        => IF FirstRaising = 0
           THEN /\ last.ret = "false"
                /\ LastRest = <<>>
                /\ Texts = <<HeaderText, MessageText>> \o
                     (IF Len(last.args) = 0
                      THEN <<"(no arguments)", "">>
                      ELSE <<"Arguments:">> \o RenderedLines(Len(last.args)) \o <<"">>)
           ELSE /\ last.ret = "none"
                /\ LastRest = <<"\"">> \o WrittenBeforeRaising(last.args[FirstRaising])
                /\ Texts = <<HeaderText, MessageText, "Arguments:">> \o
                     RenderedLines(FirstRaising - 1)

ReportOfTwoArguments ==
    /\ last.op = "run"
    /\ last.ret = "false"
    /\ Len(last.args) = 2
    /\ last.args[1] # last.args[2]
    /\ last.mark > 0

(***************************************************************************)
(* C6: an argument renders as "<value>" (<typename>) if its type supports  *)
(* textual output, as [Can't print] (<typename>) if not, and as            *)
(* "nullptr" (nullptr_t) if it is a null pointer.  Stated here for the     *)
(* reports that were completed and for arguments other than null pointers  *)
(* of a declared pointer type, so that a violation rests on the fallback   *)
(* marker alone.                                                           *)
(* Violated: the fallback overload of stream writes [Can't print'] with a  *)
(* stray apostrophe.                                                       *)
(***************************************************************************)
TypedNull(arg) == arg.type = "intptr" /\ arg.val = 0

RenderingAsStated(arg) ==
    IF arg.type = "nullptr_t" THEN "\"nullptr\" (nullptr_t)"
    ELSE IF is_streamable(arg.type)
    THEN "\"" \o Flat(OutputOp(arg).out) \o "\" (" \o TypeidName(arg.type) \o ")"
    ELSE "[Can't print] (" \o TypeidName(arg.type) \o ")"

RenderingHasThreeStatedForms ==
    (Reported /\ last.ret = "false")
        => \A i \in 1..Len(last.args) :
              ~TypedNull(last.args[i])
                  => /\ Len(Texts) >= 3 + i
                     /\ Texts[3 + i] = RenderingAsStated(last.args[i])

(***************************************************************************)
(* C6, what the code writes: an argument of type nullptr_t renders as      *)
(* "nullptr" (nullptr_t); any other argument whose type supports textual   *)
(* output, a null pointer of a declared pointer type included, renders as  *)
(* "<value>" (<typename>), so a null int* as "0" (Pi); an argument whose   *)
(* type does not renders as [Can't print'] (<typename>).                   *)
(***************************************************************************)
RenderingAsWritten(arg) ==
    IF arg.type = "nullptr_t" THEN "\"nullptr\" (nullptr_t)"
    ELSE IF is_streamable(arg.type)
    THEN "\"" \o Flat(OutputOp(arg).out) \o "\" (" \o TypeidName(arg.type) \o ")"
    ELSE "[Can't print'] (" \o TypeidName(arg.type) \o ")"

RenderingAsTheCodeWrites ==
    Reported
        => \A i \in 1..Len(last.args) :
              (FirstRaising = 0 \/ i < FirstRaising)
                  => /\ Len(Texts) >= 3 + i
                     /\ Texts[3 + i] = RenderingAsWritten(last.args[i])

(***************************************************************************)
(* C7: no failure raised while rendering an argument aborts the report:    *)
(* the invocation completes, returns false and increments failureCount.    *)
(* Violated: streamArgs is noexcept, so an output operator that throws     *)
(* ends the process inside the report.                                     *)
(***************************************************************************)
RenderingIsTotal ==
    (Reported /\ SomeOutputRaises)
        => /\ last.ret = "false"
           /\ mFailCount = last.fail0 + 1
           /\ ~terminated

(***************************************************************************)
(* C8: when the comparison itself does not signal a failure, equal,        *)
(* notequal, less and lequal return true exactly when a == b, a != b,      *)
(* a < b, a <= b; a helper that returns false reports its fixed message    *)
(* and renders a, then b.                                                  *)
(***************************************************************************)
Holds(op, a, b) ==
    CASE op = "equal" -> a.val = b.val
      [] op = "notequal" -> a.val # b.val
      [] op = "less" -> a.val < b.val
      [] OTHER -> a.val <= b.val

FixedMessage(op) ==
    CASE op = "equal" -> "Arguments are not equal!"
      [] op = "notequal" -> "Arguments are equal!"
      [] op = "less" -> "The first argument is not less than the second!"
      [] OTHER -> "The first argument is not less than or equal to the second!"

HelperVerdict ==
    (last.op \in Helpers /\ ~last.test.threw)
        => LET a == last.args[1]
               b == last.args[2]
           IN /\ last.ret = "true" <=> Holds(last.op, a, b)
              /\ last.ret = "false" =>
                    /\ Len(Texts) >= 5
                    /\ Texts[2] = "Message: \"" \o FixedMessage(last.op) \o "\""
                    /\ Texts[3] = "Arguments:"
                    /\ Texts[4] = Flat(stream(a).out)
                    /\ Texts[5] = Flat(stream(b).out)

LessOfEqualOperandsFails ==
    /\ last.op = "less"
    /\ last.ret = "false"
    /\ ~last.test.threw
    /\ last.args[1].val = last.args[2].val

(***************************************************************************)
(* C9: every invocation changes exactly one counter by 1, in agreement     *)
(* with what it returns: true and successCount + 1 if the body completes,  *)
(* false and failureCount + 1 if it signals a failure.                     *)
(* Violated: an invocation that terminates the process while rendering an  *)
(* argument (C7) returns nothing and changes no counter.                   *)
(***************************************************************************)
OneCounterPerInvocation ==
    last.op # "none"
        => IF last.body.threw
           THEN /\ last.ret = "false"
                /\ mFailCount = last.fail0 + 1
                /\ mSuccesCount = last.succ0
           ELSE /\ last.ret = "true"
                /\ mSuccesCount = last.succ0 + 1
                /\ mFailCount = last.fail0

\* the same, for the invocations that return
OneCounterPerCompletedInvocation ==
    (last.op # "none" /\ ~terminated)
        => IF last.body.threw
           THEN /\ last.ret = "false"
                /\ mFailCount = last.fail0 + 1
                /\ mSuccesCount = last.succ0
           ELSE /\ last.ret = "true"
                /\ mSuccesCount = last.succ0 + 1
                /\ mFailCount = last.fail0

(***************************************************************************)
(* C10: the number of "Test failed:" header lines in the sink equals       *)
(* failureCount.                                                           *)
(* Violated: an invocation that terminates the process while rendering an  *)
(* argument (C7) has written its header and is not counted.                *)
(***************************************************************************)
HeadersEqualFailCount == Count(sink, "Test failed: ") = mFailCount

\* a passing invocation writes nothing, a failing one writes one header,
\* and the sink is only ever extended
SinkOnlyGrowsByReports ==
    [][/\ Len(sink') >= Len(sink)
       /\ SubSeq(sink', 1, Len(sink)) = sink
       /\ Count(sink', "Test failed: ") - Count(sink, "Test failed: ")
            = (IF last'.ret = "true" THEN 0 ELSE 1)]_vars

HeadersEqualFailCountWhileAlive ==
    ~terminated => Count(sink, "Test failed: ") = mFailCount
====
